---- MODULE Spec2Model ----
(***************************************************************************)
(* Model of parallelCalls / fetchWithTimeout of src/async_operations.js.   *)
(*                                                                         *)
(* One action is one task of the JavaScript event loop together with the   *)
(* promise reactions (microtasks) it triggers: a network event of one      *)
(* fetch, the firing of one timer, or the initial call.  Time is a         *)
(* discrete clock (Tick); a timer that is due fires, or is cleared, before *)
(* the clock advances further.                                             *)
(***************************************************************************)
EXTENDS Integers, Sequences, FiniteSets, TLC

\* Bounds of the model.
MaxUrls == 3
MaxRetries == 2
MaxBatchSize == 2
MaxTimeout == 1

\* The URLs a caller may pass (a list may repeat one).
URLS == {"A", "B"}

\* Non-success HTTP statuses a server may answer with.
Statuses == {"404"}

\* Option values a caller may pass that the documentation does not allow.
NonPositive == {-1, 0}

VARIABLES
    urls,        \* argument: the list of URLs
    timeout,     \* option timeout
    retries,     \* option retries
    batchSize,   \* option batchSize
    state,       \* parallelCalls: "Pending", "RunningBatch", "Failed", "Completed"
    batchIndex,  \* loop variable i
    results,     \* the accumulator `results`
    returned,    \* the array parallelCalls resolved with (<<>> before that)
    thrown,      \* the error parallelCalls rejected with (NoError before that)
    task,        \* per URL position: the fetchWithTimeout call chain of that URL
    settleOrder  \* the positions whose promise has settled, in the order of settling

vars ==
    <<urls, timeout, retries, batchSize, state, batchIndex, results, returned, thrown,
      task, settleOrder>>

config == <<urls, timeout, retries, batchSize>>

----------------------------------------------------------------------------
\* Error values.

NoError == [name |-> "", message |-> ""]

\* fetch rejects with this when controller.abort() is called.
AbortError == [name |-> "AbortError", message |-> "This operation was aborted"]

\* fetch rejects with this on a transport-level failure.
NetworkError == [name |-> "TypeError", message |-> "fetch failed"]

\* thrown at line 147 for a response whose ok flag is false.
HttpError(status) == [name |-> "Error", message |-> "HTTP error! status: " \o status]

\* response.json() rejects with this when the body is not JSON.
SyntaxError == [name |-> "SyntaxError", message |-> "Unexpected token"]

\* Array(n) throws this when n is not a valid array length.
RangeError == [name |-> "RangeError", message |-> "Invalid array length"]

\* catch ({ message }) { throw new Error(message) }
NewError(error) == [name |-> "Error", message |-> error.message]

\* The value response.json() resolves with for a well-formed body of url.
Decoded(url) == <<"json", url>>

----------------------------------------------------------------------------
\* fetchWithTimeout: the state of one URL position.

Positions == 1..Len(urls)

Min(a, b) == IF a < b THEN a ELSE b

\* No call of fetchWithTimeout made yet for this position.
\* timeoutId: the timer of the current attempt is armed; timers: the number of
\* armed timers created for this position, those of earlier attempts included;
\* elapsed: the time since the current attempt started.
Idle ==
    [phase |-> "idle", attempt |-> 0, timeoutId |-> FALSE, timers |-> 0, elapsed |-> 0,
     fetchCalls |-> 0, value |-> <<>>, error |-> NoError]

\* Mutant of fetchWithTimeout: one deadline for the URL, so a retry goes on
\* with the time its earlier attempts have left.
fetchWithTimeoutSharedDeadline(t, a) ==
    [phase |-> "fetch", attempt |-> a, timeoutId |-> TRUE, timers |-> t.timers + 1,
     elapsed |-> t.elapsed, fetchCalls |-> t.fetchCalls + 1, value |-> <<>>,
     error |-> NoError]

\* fetchWithTimeout(url, attempt) up to its first await: a new controller,
\* a new armed timer of the full timeout, fetch started.
fetchWithTimeout(t, a) ==
    [phase |-> "fetch", attempt |-> a, timeoutId |-> TRUE, timers |-> t.timers + 1,
     elapsed |-> 0, fetchCalls |-> t.fetchCalls + 1, value |-> <<>>, error |-> NoError]

\* Mutant of clearTimeout: the timer is not disarmed.
clearTimeoutNoop(t) == t

\* clearTimeout(timeoutId): disarms the timer of the current attempt; no
\* effect when it has fired or has been cleared.
clearTimeout(t) ==
    IF t.timeoutId THEN [t EXCEPT !.timeoutId = FALSE, !.timers = t.timers - 1] ELSE t

\* if (attempt < retries)
RetryLeft(a) == a < retries

\* The promise of the call chain rejects with error; finally clears the timer.
\* (elapsed is the model's clock of an outstanding attempt: reset when settled.)
Reject(t, error) ==
    [clearTimeout(t) EXCEPT !.phase = "rejected", !.elapsed = 0, !.error = error]

\* The promise of the call chain fulfils with value.
Fulfil(t, value) ==
    [clearTimeout(t) EXCEPT !.phase = "fulfilled", !.elapsed = 0, !.value = value]

\* Mutant of Catch: no finally block, the timer of the failed attempt is left
\* armed.
CatchNoFinally(t, error) ==
    IF RetryLeft(t.attempt) THEN fetchWithTimeout(t, t.attempt + 1)
    ELSE [t EXCEPT !.phase = "rejected", !.elapsed = 0, !.error = error]

\* The catch block: retry, or rethrow; finally clears this attempt's timer
\* (in the same synchronous run in which the retry arms its own).
Catch(t, error) ==
    IF RetryLeft(t.attempt) THEN fetchWithTimeout(clearTimeout(t), t.attempt + 1)
    ELSE Reject(t, error)

\* Line 144 after the headers arrived with ok status, then `return
\* response.json()`: the timer is cleared, the body is being read, and the
\* promise returned is not awaited inside the try block.
ResponseOk(t) == [clearTimeout(t) EXCEPT !.phase = "json"]

\* Mutant of controller: one AbortController shared by every call, so abort()
\* cancels every fetch in flight.
controllerShared(k) == {j \in DOMAIN task : task[j].phase = "fetch"}

\* const controller = new AbortController(), one per call: the positions
\* whose fetch carries the signal of the controller of position k's attempt.
controller(k) == {k}

\* A promise of the call chain that is neither fulfilled nor rejected.
Outstanding(t) == t.phase \in {"fetch", "json"}

----------------------------------------------------------------------------
\* parallelCalls.

\* Array(Math.ceil(urls.length / batchSize)) throws RangeError: the length is
\* Infinity or NaN (batchSize 0) or negative (batchSize < 0, urls not empty).
InvalidArrayLength == batchSize = 0 \/ (batchSize < 0 /\ Len(urls) > 0)

\* Mutant of BatchCount: Math.floor instead of Math.ceil.
BatchCountFloor ==
    IF batchSize > 0 THEN Len(urls) \div batchSize ELSE 0

\* Mutant of BatchCount: Math.floor(urls.length / batchSize) + 1.
BatchCountFloorPlusOne ==
    IF batchSize > 0 THEN (Len(urls) \div batchSize) + 1 ELSE 0

\* Math.ceil(urls.length / batchSize), where it is a valid array length
\* (-0 for an empty list and a negative batchSize).
BatchCount ==
    IF batchSize > 0 THEN (Len(urls) + batchSize - 1) \div batchSize ELSE 0

\* Mutant of Slice: the end index is dropped, urls.slice(i * batchSize).
SliceNoEnd(i) == {k \in Positions : i * batchSize < k}

\* Mutant of Slice: the end index is taken as inclusive.
SliceInclusiveEnd(i) ==
    {k \in Positions : i * batchSize < k /\ k <= (i + 1) * batchSize + 1}

\* The positions of urls.slice(i * batchSize, (i + 1) * batchSize).
Slice(i) == {k \in Positions : i * batchSize < k /\ k <= (i + 1) * batchSize}

\* The batch a position belongs to.
BatchOf(k) == (k - 1) \div batchSize

\* currentBatch.map((url) => fetchWithTimeout(url))
StartBatch(tk, i) ==
    [k \in Positions |-> IF k \in Slice(i) THEN fetchWithTimeout(tk[k], 1) ELSE tk[k]]

\* Promise.all fulfils: every promise of the current batch is fulfilled.
AllFulfilled(tk, i) == \A k \in Slice(i) : tk[k].phase = "fulfilled"

RECURSIVE ValuesFrom(_, _, _)
\* The values of positions lo..hi, in position order.
ValuesFrom(tk, lo, hi) ==
    IF lo > hi THEN <<>> ELSE <<tk[lo].value>> \o ValuesFrom(tk, lo + 1, hi)

\* Mutant of BatchResults: the values are collected in the order in which the
\* promises of the batch fulfil (each pushed by its own then-callback).
BatchResultsAsSettled(tk, i) ==
    LET done == SelectSeq(settleOrder, LAMBDA k : k \in Slice(i))
        last == CHOOSE k \in Slice(i) : \A n \in 1..Len(done) : done[n] # k
        order == Append(done, last)
    IN  [n \in 1..Len(order) |-> tk[order[n]].value]

\* The array Promise.all resolves with: one slot per promise, in input order.
BatchResults(tk, i) ==
    ValuesFrom(tk, i * batchSize + 1, Min((i + 1) * batchSize, Len(urls)))

\* Mutant of PromiseAll: Promise.allSettled, which waits for every promise and
\* never rejects.
PromiseAllSettled(tk, k) ==
    IF state # "RunningBatch" THEN "pending"
    ELSE IF \A j \in Slice(batchIndex) : ~Outstanding(tk[j]) THEN "fulfilled"
    ELSE "pending"

\* Mutant of PromiseAll: Promise.race, which settles with the first promise
\* of the batch that settles.
PromiseRace(tk, k) ==
    IF state # "RunningBatch" THEN "pending"
    ELSE IF tk[k].phase = "rejected" THEN "rejected"
    ELSE IF tk[k].phase = "fulfilled" THEN "fulfilled"
    ELSE "pending"

\* Mutant of PromiseAll: every rejection of a promise of the batch is
\* reported, a later one replacing the one reported before.
PromiseAllEveryRejection(tk, k) ==
    IF state \in {"RunningBatch", "Failed"} /\ tk[k].phase = "rejected"
           /\ task[k].phase # "rejected" THEN "rejected"
    ELSE IF state = "RunningBatch" /\ AllFulfilled(tk, batchIndex) THEN "fulfilled"
    ELSE "pending"

\* What Promise.all of the current batch does when position k has made a step
\* (tk is task after it): it rejects with the first rejection, fulfils when
\* every promise is fulfilled, and stays pending otherwise. Nothing awaits it
\* once parallelCalls has settled.
PromiseAll(tk, k) ==
    IF state # "RunningBatch" THEN "pending"
    ELSE IF tk[k].phase = "rejected" THEN "rejected"
    ELSE IF AllFulfilled(tk, batchIndex) THEN "fulfilled"
    ELSE "pending"

\* Mutant of CatchBlock: the error is logged and the results collected so far
\* are returned.
CatchBlockReturnsResults(error) ==
    [state |-> "Completed", thrown |-> thrown, returned |-> results]

\* catch ({ message }) { console.log(...); throw new Error(message); }: how
\* parallelCalls settles when its try block throws error.
CatchBlock(error) ==
    [state |-> "Failed", thrown |-> NewError(error), returned |-> returned]

\* The reactions to a step of position k (tk is task after it): of
\* Promise.all, of the await at line 168, and of the rest of parallelCalls.
Settled(tk, k) ==
    /\ settleOrder' = IF Outstanding(task[k]) /\ ~Outstanding(tk[k])
                      THEN Append(settleOrder, k) ELSE settleOrder
    /\ CASE PromiseAll(tk, k) = "rejected" ->
              /\ state' = CatchBlock(tk[k].error).state
              /\ thrown' = CatchBlock(tk[k].error).thrown
              /\ returned' = CatchBlock(tk[k].error).returned
              /\ task' = tk
              /\ UNCHANGED <<batchIndex, results>>
         [] PromiseAll(tk, k) = "fulfilled" ->
              /\ results' = results \o BatchResults(tk, batchIndex)
              /\ IF batchIndex + 1 < BatchCount
                 THEN /\ batchIndex' = batchIndex + 1
                      /\ task' = StartBatch(tk, batchIndex + 1)
                      /\ UNCHANGED <<state, returned>>
                 ELSE /\ state' = "Completed"
                      /\ returned' = results'
                      /\ task' = tk
                      /\ UNCHANGED batchIndex
              /\ UNCHANGED thrown
         [] OTHER ->
              /\ task' = tk
              /\ UNCHANGED <<state, batchIndex, results, returned, thrown>>

\* The caller calls parallelCalls: it runs to its first await.
Call ==
    /\ state = "Pending"
    /\ IF InvalidArrayLength THEN
           /\ state' = CatchBlock(RangeError).state
           /\ thrown' = CatchBlock(RangeError).thrown
           /\ returned' = CatchBlock(RangeError).returned
           /\ UNCHANGED <<batchIndex, results, task, settleOrder>>
       ELSE IF BatchCount = 0 THEN
           /\ state' = "Completed"
           /\ returned' = results
           /\ UNCHANGED <<batchIndex, results, thrown, task, settleOrder>>
       ELSE
           /\ state' = "RunningBatch"
           /\ task' = StartBatch(task, 0)
           /\ UNCHANGED <<batchIndex, results, returned, thrown, settleOrder>>
    /\ UNCHANGED config

\* fetch of position k resolves with a response whose ok flag is true.
FetchOk(k) ==
    /\ task[k].phase = "fetch"
    /\ task' = [task EXCEPT ![k] = ResponseOk(task[k])]
    /\ UNCHANGED <<state, batchIndex, results, returned, thrown, settleOrder>>
    /\ UNCHANGED config

\* fetch of position k resolves with a response whose ok flag is false.
FetchHttpError(k) ==
    /\ task[k].phase = "fetch"
    /\ \E status \in Statuses :
           Settled([task EXCEPT ![k] = Catch(task[k], HttpError(status))], k)
    /\ UNCHANGED config

\* fetch of position k rejects with a transport-level failure.
FetchNetworkError(k) ==
    /\ task[k].phase = "fetch"
    /\ Settled([task EXCEPT ![k] = Catch(task[k], NetworkError)], k)
    /\ UNCHANGED config

\* The timer of the current attempt has fired: it is no longer armed.
timerFired(t) == [t EXCEPT !.timeoutId = FALSE, !.timers = t.timers - 1]

\* What controller.abort() does to a call: a fetch awaited rejects with
\* AbortError and the catch block runs; a body being read fails; nothing
\* otherwise.
abort(t) ==
    CASE t.phase = "fetch" -> Catch(t, AbortError)
      [] t.phase = "json" -> Reject(t, AbortError)
      [] OTHER -> t

\* The timer of position k fires: controller.abort().
TimerFires(k) ==
    /\ task[k].timeoutId
    /\ task[k].elapsed >= timeout
    /\ Settled([j \in Positions |->
                   IF j = k THEN abort(timerFired(task[k]))
                   ELSE IF j \in controller(k) THEN abort(task[j])
                   ELSE task[j]], k)
    /\ UNCHANGED config

\* response.json() of position k resolves with the decoded body.
JsonOk(k) ==
    /\ task[k].phase = "json"
    /\ Settled([task EXCEPT ![k] = Fulfil(task[k], Decoded(urls[k]))], k)
    /\ UNCHANGED config

\* response.json() of position k rejects: the body is not JSON, or the
\* connection fails while the body is read.
JsonRejects(k) ==
    /\ task[k].phase = "json"
    /\ \E error \in {SyntaxError, NetworkError} :
           Settled([task EXCEPT ![k] = Reject(task[k], error)], k)
    /\ UNCHANGED config

\* The largest value the model's clock of an attempt takes.
ElapsedCap == IF timeout > 0 THEN timeout + 1 ELSE 1

\* One unit of time passes. No armed timer is overdue.
Tick ==
    /\ \A k \in Positions : task[k].timeoutId => task[k].elapsed < timeout
    /\ \E k \in Positions : Outstanding(task[k]) /\ task[k].elapsed < ElapsedCap
    /\ task' = [k \in Positions |->
                  IF Outstanding(task[k])
                  THEN [task[k] EXCEPT !.elapsed = Min(task[k].elapsed + 1, ElapsedCap)]
                  ELSE task[k]]
    /\ UNCHANGED <<state, batchIndex, results, returned, thrown, settleOrder>>
    /\ UNCHANGED config

----------------------------------------------------------------------------
\* Lists of URLs of length at most n.
UrlLists(n) == UNION {[1..m -> URLS] : m \in 0..n}

InitRest ==
    /\ state = "Pending"
    /\ batchIndex = 0
    /\ results = <<>>
    /\ returned = <<>>
    /\ thrown = NoError
    /\ task = [k \in Positions |-> Idle]
    /\ settleOrder = <<>>

\* Calls with options as documented: positive integers.
Init ==
    /\ urls \in UrlLists(MaxUrls)
    /\ timeout \in 1..MaxTimeout
    /\ retries \in 1..MaxRetries
    /\ batchSize \in 1..MaxBatchSize
    /\ InitRest

\* Calls with any integer options, non-positive ones included.
InitAny ==
    /\ urls \in UrlLists(MaxUrls)
    /\ timeout \in NonPositive \cup 1..MaxTimeout
    /\ retries \in NonPositive \cup 1..MaxRetries
    /\ batchSize \in NonPositive \cup 1..MaxBatchSize
    /\ InitRest

Next ==
    \/ Call
    \/ Tick
    \/ \E k \in Positions : FetchOk(k)
    \/ \E k \in Positions : FetchHttpError(k)
    \/ \E k \in Positions : FetchNetworkError(k)
    \/ \E k \in Positions : TimerFires(k)
    \/ \E k \in Positions : JsonOk(k)
    \/ \E k \in Positions : JsonRejects(k)

Spec == Init /\ [][Next]_vars

SpecAny == InitAny /\ [][Next]_vars

\* The scheduling the runtime guarantees: the call runs, time passes, and a
\* timer that is due and still armed fires. Nothing makes a server answer or
\* finish a body: the network events carry no fairness.
Fairness ==
    /\ WF_vars(Call)
    /\ WF_vars(Tick)
    /\ WF_vars(\E k \in Positions : TimerFires(k))

SpecFair == Init /\ [][Next]_vars /\ Fairness

----------------------------------------------------------------------------
\* Properties.

\* Position a settled before position b did (b may not have settled yet).
SettledBefore(a, b) ==
    \E m \in 1..Len(settleOrder) :
        /\ settleOrder[m] = a
        /\ \A n \in 1..m : settleOrder[n] # b

\* The number of attempts started and not yet settled.
InFlight == Cardinality({k \in Positions : Outstanding(task[k])})

\* C1: when parallelCalls has completed successfully, the array it returned
\* has exactly urls.length entries and entry k is the decoded response of
\* urls[k], whatever the order in which the requests of a batch completed.
C1_ResultInInputOrder ==
    state = "Completed" =>
        /\ Len(returned) = Len(urls)
        /\ \A k \in Positions : returned[k] = Decoded(urls[k])

\* C1 witness: a successful run over several batches in which a later
\* position of a batch, with a different URL, completed before an earlier one.
C1_Witness ==
    /\ state = "Completed"
    /\ BatchCount > 1
    /\ \E j, k \in Positions :
           /\ j < k
           /\ BatchOf(j) = BatchOf(k)
           /\ urls[j] # urls[k]
           /\ SettledBefore(k, j)

\* C2: at every instant, also after a URL has failed permanently, at most
\* batchSize attempts are started and not yet settled.
C2_InFlightAtMostBatchSize == InFlight <= batchSize

\* C2 witness: parallelCalls has failed, more URLs remain after the current
\* batch, and a sibling of the failed URL is on a retry that is in flight.
C2_Witness ==
    /\ state = "Failed"
    /\ batchIndex + 1 < BatchCount
    /\ \E j, k \in Slice(batchIndex) :
           /\ task[j].phase = "rejected"
           /\ Outstanding(task[k])
           /\ task[k].fetchCalls > 1
           /\ SettledBefore(j, k)


\* C3: with retries >= 1, a URL whose every attempt failed has had exactly
\* `retries` attempts when its failure is propagated, and a URL that succeeded
\* on attempt k <= retries has had exactly k attempts.
C3_ExactAttemptCount ==
    \A k \in Positions :
        /\ task[k].phase = "rejected" => task[k].fetchCalls = retries
        /\ task[k].phase = "fulfilled" =>
               task[k].fetchCalls = task[k].attempt /\ task[k].attempt <= retries

\* C4: an attempt with attempt number < retries that fails, whatever the kind
\* of the failure, is followed by another attempt for the same URL: the
\* failure is not propagated before the retry budget is exhausted.
C4_EveryFailureRetried ==
    [][\A k \in Positions :
          Outstanding(task[k]) /\ task[k].attempt < retries
              => task'[k].phase # "rejected"]_vars

\* C5: if a URL of batch i has failed permanently, no attempt is ever
\* started for a URL of a batch with index > i.
C5_FailFast ==
    \A j, k \in Positions :
        task[j].phase = "rejected" /\ BatchOf(k) > BatchOf(j)
            => task[k].fetchCalls = 0

\* C5 witness: a URL has failed permanently, URLs of later batches exist, and
\* nothing is in flight any more.
C5_Witness ==
    /\ \E j, k \in Positions : task[j].phase = "rejected" /\ BatchOf(k) > BatchOf(j)
    /\ InFlight = 0

\* C6: if any URL has failed permanently, parallelCalls has reported failure
\* and has returned no data, neither the results of earlier batches nor those
\* of successful siblings.
C6_NoPartialResult ==
    (\E k \in Positions : task[k].phase = "rejected")
        => state = "Failed" /\ returned = <<>>

\* C6 witness: parallelCalls has failed after an earlier batch had succeeded
\* and its results had been accumulated.
C6_Witness ==
    /\ state = "Failed"
    /\ Len(results) > 0
    /\ \E k \in Positions : task[k].phase = "rejected"

\* C7: when parallelCalls has failed, the error delivered carries the failing
\* URL, the number of attempts made on it and the message of its last failure.
C7_ErrorCarriesUrlAndAttempts ==
    state = "Failed" =>
        \E k \in Positions :
            /\ task[k].phase = "rejected"
            /\ {"url", "attempts", "message"} \subseteq DOMAIN thrown
            /\ thrown.url = urls[k]
            /\ thrown.attempts = task[k].fetchCalls
            /\ thrown.message = task[k].error.message

\* C8: no attempt stays outstanding past its timeout: an attempt that has not
\* settled (body read and decoded) when timeout has elapsed since it started
\* has been aborted.
C8_NoAttemptPastTimeout ==
    \A k \in Positions : Outstanding(task[k]) => task[k].elapsed <= timeout

\* C9: a call with a non-positive timeout, retries or batchSize starts no
\* attempt and never completes successfully.
C9_OptionsValidated ==
    (timeout <= 0 \/ retries <= 0 \/ batchSize <= 0)
        => /\ \A k \in Positions : task[k].fetchCalls = 0
           /\ state # "Completed"

\* C10: no attempt for a URL of a later batch is started while a
\* fetchWithTimeout call of an earlier batch, retries included, is unsettled.
C10_BatchesSequential ==
    \A j, k \in Positions :
        BatchOf(j) < BatchOf(k) /\ task[k].fetchCalls > 0
            => task[j].phase \in {"fulfilled", "rejected"}

\* C10 witness: a URL of the second batch is in flight after a batch of
\* several URLs, one of which needed a retry.
C10_Witness ==
    \E j, k \in Positions :
        /\ BatchOf(j) < BatchOf(k)
        /\ Outstanding(task[k])
        /\ task[j].fetchCalls > 1
        /\ Cardinality(Slice(BatchOf(j))) > 1

\* C11 as stated: when parallelCalls has settled, with the result or with an
\* error, no attempt of the current batch is outstanding.
C11_SettledMeansQuiescent ==
    state \in {"Completed", "Failed"} => InFlight = 0

\* C11 amended: when parallelCalls has completed, every call of every batch
\* is fulfilled and nothing is in flight; when it has failed, a URL of the
\* current batch has failed permanently and only calls of the current batch
\* may still be in flight (Promise.all does not wait for them).
C11_WaitsOnlyOnSuccess ==
    /\ state = "Completed" => \A k \in Positions : task[k].phase = "fulfilled"
    /\ state = "Failed" =>
           /\ \E k \in Slice(batchIndex) : task[k].phase = "rejected"
           /\ \A k \in Positions : Outstanding(task[k]) => k \in Slice(batchIndex)

\* C11 witness: parallelCalls has failed while the body of a sibling of the
\* failed URL is still being read.
C11_Witness ==
    /\ state = "Failed"
    /\ \E j, k \in Slice(batchIndex) :
           task[j].phase = "rejected" /\ task[k].phase = "json"

\* C12: an attempt that has settled has no armed timer: a position holds at
\* most the armed timer of its current attempt, none once its call has
\* settled or its body is being read, and none after parallelCalls completed.
C12_TimerDisarmedOnSettle ==
    \A k \in Positions :
        /\ task[k].timers = (IF task[k].timeoutId THEN 1 ELSE 0)
        /\ task[k].timeoutId => task[k].phase = "fetch"
        /\ state = "Completed" => task[k].timers = 0

\* C12 witness: parallelCalls has completed and a URL needed a retry, so that
\* attempts have ended both in failure and in success.
C12_Witness ==
    /\ state = "Completed"
    /\ \E k \in Positions : task[k].fetchCalls > 1

\* C13: the firing of the timer of one attempt aborts only that attempt: the
\* state of every other position (request, timer, attempt number, result) is
\* left unchanged by it.
C13_AbortScopedToAttempt ==
    [][\A k \in Positions :
          TimerFires(k) => \A j \in Positions \ {k} : task'[j] = task[j]]_vars

\* C13 witness: the attempt of one URL has been aborted on its last attempt
\* while the fetch of a sibling of the same batch is in flight, timer armed.
C13_Witness ==
    \E j, k \in Slice(batchIndex) :
        /\ task[k].phase = "rejected"
        /\ task[k].error = AbortError
        /\ j # k
        /\ task[j].phase = "fetch"
        /\ task[j].timeoutId
        /\ task[j].elapsed >= timeout

\* An attempt of position k is aborted by its timer in this step.
Aborted(k) ==
    /\ task[k].phase = "fetch"
    /\ \/ task'[k].phase = "rejected" /\ task'[k].error = AbortError
       \/ TimerFires(k)

\* C14: every attempt, retries included, starts with its own newly armed timer
\* and the full timeout: its clock starts at 0, and it is aborted by its
\* timer only when timeout has elapsed since its own start.
C14_FreshBudgetPerAttempt ==
    [][\A k \in Positions :
          /\ task'[k].fetchCalls > task[k].fetchCalls =>
                 /\ task'[k].timeoutId
                 /\ task'[k].timers = 1
                 /\ task'[k].elapsed = 0
          /\ Aborted(k) => task[k].elapsed >= timeout]_vars

\* C14 witness: a retry has been in flight for the full timeout, its timer
\* still armed.
C14_Witness ==
    \E k \in Positions :
        /\ task[k].fetchCalls > 1
        /\ task[k].phase = "fetch"
        /\ task[k].timeoutId
        /\ task[k].elapsed = timeout

\* The index of the batch that holds the last URL.
LastBatch == BatchOf(Len(urls))

\* The steps of the state machine that C15 and its amended form share: from
\* RunningBatch(i) to RunningBatch(i + 1), Failed or, from the last batch,
\* Completed; no step out of Failed or Completed.
StepsOfRunning ==
    /\ state = "RunningBatch" =>
           \/ state' = "RunningBatch" /\ batchIndex' \in {batchIndex, batchIndex + 1}
           \/ state' = "Failed" /\ batchIndex' = batchIndex
           \/ state' = "Completed" /\ batchIndex' = batchIndex /\ batchIndex = LastBatch
    /\ state \in {"Failed", "Completed"} => state' = state /\ batchIndex' = batchIndex

\* C15 as stated: Pending -> RunningBatch(0), RunningBatch(i) ->
\* RunningBatch(i + 1) | Failed | Completed, Completed only from the last
\* batch, Failed and Completed terminal.
C15_StateMachine ==
    [][/\ state = "Pending" =>
             \/ state' = "Pending"
             \/ state' = "RunningBatch" /\ batchIndex' = 0
        /\ StepsOfRunning]_vars

\* C15 amended: as stated, and with an empty list of URLs Pending ->
\* Completed directly.
C15_StateMachineOrEmpty ==
    [][/\ state = "Pending" =>
             \/ state' = "Pending"
             \/ state' = "RunningBatch" /\ batchIndex' = 0 /\ Len(urls) > 0
             \/ state' = "Completed" /\ Len(urls) = 0
        /\ StepsOfRunning]_vars

\* C15 witness: parallelCalls has completed from the last of several batches.
C15_Witness ==
    /\ state = "Completed"
    /\ batchIndex = LastBatch
    /\ batchIndex > 0

\* The batches partition the positions into contiguous slices: every
\* position is in exactly one batch, the one of index (k - 1) div batchSize;
\* every batch but the last has exactly batchSize positions and the last has
\* between 1 and batchSize.
SlicesPartition ==
    /\ \A k \in Positions :
           {i \in 0..(BatchCount - 1) : k \in Slice(i)} = {(k - 1) \div batchSize}
    /\ \A i \in 0..(BatchCount - 1) :
           /\ \A a, b \in Slice(i) : \A c \in a..b : c \in Slice(i)
           /\ i < BatchCount - 1 => Cardinality(Slice(i)) = batchSize
           /\ i = BatchCount - 1 =>
                  Cardinality(Slice(i)) >= 1 /\ Cardinality(Slice(i)) <= batchSize

\* C16: for every list of URLs and batchSize >= 1 the batches are the
\* contiguous slices of batchSize URLs that partition the list (the list and
\* the options never change during a call, so this is stated of the state in
\* which the call is made), and in a run the positions ever started are
\* exactly those of the batches up to the current one.
C16_BatchesPartitionUrls ==
    /\ state = "Pending" => SlicesPartition
    /\ state # "Pending" =>
           \A k \in Positions :
               task[k].fetchCalls > 0 <=> k <= (batchIndex + 1) * batchSize

\* C16 witness: the last batch, shorter than batchSize, is running after a
\* full one.
C16_Witness ==
    /\ state = "RunningBatch"
    /\ batchIndex > 0
    /\ batchIndex = BatchCount - 1
    /\ Cardinality(Slice(batchIndex)) < batchSize
    /\ \E k \in Slice(batchIndex) : Outstanding(task[k])

\* C17: under the fairness of timers, every call of parallelCalls with
\* positive options eventually settles, as Completed or as Failed, even when
\* a server never finishes sending a response.
C17_EventuallySettles == <>(state \in {"Completed", "Failed"})

\* C18: the attempts of one URL position are strictly sequential: a new
\* attempt is started only by the first call or in the step in which the
\* attempt in flight fails, its number is the previous number plus 1, and a
\* position never holds more than one armed timer.
C18_AttemptsSequential ==
    [][\A k \in Positions :
          /\ task'[k].timers <= 1
          /\ task'[k].fetchCalls # task[k].fetchCalls =>
                 /\ task[k].phase \in {"idle", "fetch"}
                 /\ task'[k].phase = "fetch"
                 /\ task'[k].fetchCalls = task[k].fetchCalls + 1
                 /\ task'[k].attempt = task[k].attempt + 1
                 /\ task'[k].attempt = task'[k].fetchCalls]_vars

\* C18 witness: a second attempt is in flight, with its timer armed, after
\* the first one failed.
C18_Witness ==
    \E k \in Positions :
        /\ task[k].attempt = 2
        /\ task[k].phase = "fetch"
        /\ task[k].timers = 1

\* The positions that have failed permanently, in the order of their failing.
RejectedInOrder == SelectSeq(settleOrder, LAMBDA k : task[k].phase = "rejected")

\* C19: when several URLs of a batch fail permanently, the failure reported
\* is the one of the URL that failed first in time, whatever its place in the
\* input, and later failures of siblings do not replace it.
C19_FirstFailureInTimeReported ==
    state = "Failed" =>
        /\ Len(RejectedInOrder) > 0
        /\ thrown = NewError(task[RejectedInOrder[1]].error)

\* C19 witness: two URLs of a batch have failed permanently with different
\* errors, the later one in the input first.
C19_Witness ==
    /\ state = "Failed"
    /\ Len(RejectedInOrder) = 2
    /\ RejectedInOrder[1] > RejectedInOrder[2]
    /\ task[RejectedInOrder[1]].error.message # task[RejectedInOrder[2]].error.message

\* C20: called with an empty list and batchSize >= 1, parallelCalls never is
\* in a RunningBatch state and never fails, starts no attempt, and completes
\* with an empty result.
C20_EmptyListCompletes ==
    Len(urls) = 0 =>
        /\ state \in {"Pending", "Completed"}
        /\ returned = <<>>
        /\ results = <<>>
        /\ thrown = NoError
        /\ settleOrder = <<>>
        /\ state = "Pending" => ENABLED Call

\* C20 witness: the call with an empty list has completed.
C20_Witness ==
    /\ Len(urls) = 0
    /\ state = "Completed"
    /\ returned = <<>>

====
